---- MODULE Spec2Model ----
(***************************************************************************)
(* IP Address API Service (src/main.py).                                   *)
(*                                                                         *)
(* A string is modelled as a sequence of lexical atoms: the separator ",", *)
(* the whitespace " ", and whole address-like words.  str.split and        *)
(* str.strip work on these sequences as they work on characters, and the   *)
(* standard library's ip_address is a table over the words.  An optional   *)
(* value (a header that may be missing, request.remote_addr that may be    *)
(* None) is a record [has, v].  request.remote_addr is the value the view  *)
(* functions see, that is, after the proxy middleware of lines 32-39.      *)
(***************************************************************************)
EXTENDS Integers, Sequences, FiniteSets, TLC

VARIABLES config, request, pc, response, log, nreq

vars == <<config, request, pc, response, log, nreq>>

----------------------------------------------------------------------------
(* Bounds *)

MaxXffLen == 3
MaxRequests == 2

Workers == {"w1", "w2"}

----------------------------------------------------------------------------
(* Strings *)

Comma == ","
Space == " "
Words == {"127.0.0.1", "::1", "0:0:0:0:0:0:0:1", "8.8.8.8", "unknown"}
Atoms == Words \cup {Comma, Space}

StringsUpTo(alphabet, n) == UNION {[1..k -> alphabet] : k \in 0..n}

None == [has |-> FALSE, v |-> <<>>]
Some(s) == [has |-> TRUE, v |-> s]
Optional(S) == {None} \cup {Some(s) : s \in S}

UNKNOWN == <<"unknown">>

\* str.strip(): drop leading and trailing whitespace.
RECURSIVE lstrip(_)
lstrip(s) == IF s # <<>> /\ Head(s) = Space THEN lstrip(Tail(s)) ELSE s

RECURSIVE rstrip(_)
rstrip(s) ==
    IF s # <<>> /\ s[Len(s)] = Space THEN rstrip(SubSeq(s, 1, Len(s) - 1)) ELSE s

strip(s) == rstrip(lstrip(s))

\* str.split(','): the pieces between separators, empty pieces included.
RECURSIVE split(_)
split(s) ==
    IF \A i \in 1..Len(s) : s[i] # Comma
    THEN <<s>>
    ELSE LET i == CHOOSE k \in 1..Len(s) :
                      s[k] = Comma /\ \A j \in 1..(k - 1) : s[j] # Comma
         IN  <<SubSeq(s, 1, i - 1)>> \o split(SubSeq(s, i + 1, Len(s)))

----------------------------------------------------------------------------
(* ipaddress.ip_address: an address object, or ValueError *)

NoAddress == [exc |-> "", isaddr |-> FALSE, version |-> 0, addr |-> "", is_global |-> FALSE]
ValueError == [exc |-> "ValueError", isaddr |-> FALSE, version |-> 0, addr |-> "", is_global |-> FALSE]
Address(ver, a, g) == [exc |-> "", isaddr |-> TRUE, version |-> ver, addr |-> a, is_global |-> g]

ip_address(s) ==
    IF Len(s) # 1 THEN ValueError
    ELSE CASE s[1] = "127.0.0.1"       -> Address(4, "127.0.0.1", FALSE)
           [] s[1] = "8.8.8.8"         -> Address(4, "8.8.8.8", TRUE)
           [] s[1] = "::1"             -> Address(6, "::1", FALSE)
           [] s[1] = "0:0:0:0:0:0:0:1" -> Address(6, "::1", FALSE)
           [] OTHER                    -> ValueError

\* validate_ip without its except clause: the ValueError propagates.
validate_ip_no_except(ip_str) == ip_address(strip(ip_str))

validate_ip(ip_str) ==
    LET r == ip_address(strip(ip_str))
    IN  IF r.exc = "ValueError" THEN NoAddress ELSE r

----------------------------------------------------------------------------
(* get_real_client_ip *)

Returned(s) == [exc |-> "", value |-> s]
Raised(e) == [exc |-> e, value |-> <<>>]

\* The scan without the membership test against the trusted proxies.
RECURSIVE ScanNoTrustCheck(_, _, _)
ScanNoTrustCheck(proxies, i, trusted_proxies) ==
    IF i = 0 THEN Returned(UNKNOWN)
    ELSE IF validate_ip(proxies[i]).isaddr THEN Returned(proxies[i])
    ELSE ScanNoTrustCheck(proxies, i - 1, trusted_proxies)

\* The scan from the left: the first usable entry instead of the last.
ScanForward(proxies, i, trusted_proxies) ==
    LET c == {k \in 1..i : validate_ip(proxies[k]).isaddr /\ proxies[k] \notin trusted_proxies}
    IN  IF c = {} THEN Returned(UNKNOWN)
        ELSE Returned(proxies[CHOOSE k \in c : \A m \in c : k <= m])

\* The scan with trust decided by address equality instead of string equality.
RECURSIVE ScanTrustByAddress(_, _, _)
ScanTrustByAddress(proxies, i, trusted_proxies) ==
    IF i = 0 THEN Returned(UNKNOWN)
    ELSE LET v == validate_ip(proxies[i])
         IN  IF v.isaddr /\ \A t \in trusted_proxies : validate_ip(t).addr # v.addr
             THEN Returned(proxies[i])
             ELSE ScanTrustByAddress(proxies, i - 1, trusted_proxies)

\* for ip in reversed(proxies): ... break
RECURSIVE ScanReversed(_, _, _)
ScanReversed(proxies, i, trusted_proxies) ==
    IF i = 0 THEN Returned(UNKNOWN)
    ELSE LET ip == proxies[i]
             v  == validate_ip(ip)
         IN  IF v.exc # "" THEN Raised(v.exc)
             ELSE IF v.isaddr /\ ip \notin trusted_proxies THEN Returned(ip)
             ELSE ScanReversed(proxies, i - 1, trusted_proxies)

FromForwardedFor(req, cfg) ==
    IF req.xff.has
    THEN LET xff     == req.xff.v
             parts   == split(xff)
             proxies == [i \in 1..Len(parts) |-> strip(parts[i])]
         IN  ScanReversed(proxies, Len(proxies), cfg.TRUSTED_PROXIES)
    ELSE Returned(UNKNOWN)

\* X-Real-IP consulted only when there is no X-Forwarded-For header at all.
RealIpOnlyWithoutForwardedFor(req, s1) ==
    IF ~req.xff.has /\ req.xri.has /\ validate_ip(req.xri.v).isaddr
    THEN Returned(req.xri.v)
    ELSE s1

\* X-Real-IP taken without the test that step 1 left 'unknown'.
RealIpOverrides(req, s1) ==
    IF req.xri.has /\ validate_ip(req.xri.v).isaddr THEN Returned(req.xri.v) ELSE s1

FromRealIp(req, s1) ==
    IF s1.exc # "" THEN s1
    ELSE IF s1.value = UNKNOWN /\ req.xri.has
    THEN LET v == validate_ip(req.xri.v)
         IN  IF v.exc # "" THEN Raised(v.exc)
             ELSE IF v.isaddr THEN Returned(req.xri.v)
             ELSE s1
    ELSE s1

\* The final fallback left out.
RemoteAddrSkipped(req, s2) == s2

FromRemoteAddr(req, s2) ==
    IF s2.exc # "" THEN s2
    ELSE IF s2.value = UNKNOWN
    THEN IF req.remote_addr.has /\ req.remote_addr.v # <<>>
         THEN Returned(req.remote_addr.v)
         ELSE Returned(UNKNOWN)
    ELSE s2

get_real_client_ip(req, cfg) ==
    FromRemoteAddr(req, FromRealIp(req, FromForwardedFor(req, cfg)))

----------------------------------------------------------------------------
(* Configuration, requests, responses *)

ProductionConfig == [TRUSTED_PROXIES |-> {<<"127.0.0.1">>, <<"::1">>}]

Paths == {"/ip", "/", "/health", "/missing"}

NoRequest == [xff |-> None, xri |-> None, remote_addr |-> None, method |-> "", path |-> ""]

NoBody == [kind |-> "", ip |-> <<>>, is_global |-> FALSE, version |-> "",
           forwarded_for |-> None, real_ip |-> None, remote_addr |-> None, text |-> ""]
NoResponse == [status |-> 0, body |-> NoBody]

jsonify(kind, text) == [NoBody EXCEPT !.kind = kind, !.text = text]

\* @app.errorhandler(500)
internal_error == [status |-> 500, body |-> jsonify("error", "Internal server error")]

\* @app.errorhandler(404)
not_found == [status |-> 404, body |-> jsonify("error", "Endpoint not found")]

\* X-Real-IP values: empty, blank, one word, a word with surrounding blanks.
RealIpStrings ==
    {<<>>, <<Space>>} \cup {<<a>> : a \in Words}
        \cup {<<Space, "8.8.8.8">>, <<"127.0.0.1", Space>>}

\* request.remote_addr values: empty, an address, or text that is no address.
PeerStrings == {<<>>} \cup {<<a>> : a \in Words \cup {"not-an-ip"}}

\* The requests of Spec: every combination of headers and peer address
\* within the bounds, sent to GET /ip.
ResolverRequests ==
    [xff : Optional(StringsUpTo(Atoms, MaxXffLen)),
     xri : Optional(RealIpStrings),
     remote_addr : Optional(PeerStrings),
     method : {"GET"}, path : {"/ip"}]

\* The requests of SpecServer: any route, arriving through a local proxy.
ServerRequests ==
    [xff : Optional({<<>>, <<"8.8.8.8">>}),
     xri : {None},
     remote_addr : {Some(<<"127.0.0.1">>)},
     method : {"GET"}, path : Paths]

----------------------------------------------------------------------------
(* The request pipeline: before_request, the view function, after_request *)

Incoming(req) ==
    [kind |-> "incoming", xff |-> req.xff, xri |-> req.xri, client_ip |-> <<>>,
     method |-> "", path |-> "", status |-> 0]

Access(client_ip, req, resp) ==
    [kind |-> "access", xff |-> None, xri |-> None, client_ip |-> client_ip,
     method |-> req.method, path |-> req.path, status |-> resp.status]

\* The server hands a request to an idle worker.
Receive(w) ==
    /\ pc[w] = "idle"
    /\ nreq < MaxRequests
    /\ \E r \in ServerRequests : request' = [request EXCEPT ![w] = r]
    /\ pc' = [pc EXCEPT ![w] = "before"]
    /\ response' = [response EXCEPT ![w] = NoResponse]
    /\ nreq' = nreq + 1
    /\ UNCHANGED <<config, log>>

before_request(w) ==
    /\ pc[w] = "before"
    /\ log' = Append(log, Incoming(request[w]))
    /\ pc' = [pc EXCEPT ![w] = "dispatch"]
    /\ UNCHANGED <<config, request, response, nreq>>

\* The document built as if the resolved value always were an address.
IpDocumentWithoutRevalidation(client_ip, req) ==
    LET v == validate_ip(client_ip)
    IN  [kind |-> "ip", ip |-> client_ip,
         is_global |-> v.is_global,
         version |-> IF v.version = 4 THEN "v4" ELSE "v6",
         forwarded_for |-> req.xff, real_ip |-> req.xri,
         remote_addr |-> req.remote_addr, text |-> ""]

\* The JSON document of GET /ip for a resolved client_ip.
IpDocument(client_ip, req) ==
    LET v == validate_ip(client_ip)
    IN  [kind |-> "ip", ip |-> client_ip,
         is_global |-> IF v.isaddr THEN v.is_global ELSE FALSE,
         version |-> IF v.isaddr /\ v.version = 4 THEN "v4"
                     ELSE IF v.isaddr THEN "v6" ELSE "invalid",
         forwarded_for |-> req.xff, real_ip |-> req.xri,
         remote_addr |-> req.remote_addr, text |-> ""]

\* What the view function of GET /ip returns; an exception that escapes it
\* is answered by the 500 handler.
IpView(req, cfg) ==
    LET r == get_real_client_ip(req, cfg)
    IN  IF r.exc # "" \/ validate_ip(r.value).exc # ""
        THEN internal_error
        ELSE [status |-> 200, body |-> IpDocument(r.value, req)]

\* The view function remembering every address it resolved as a proxy.
get_client_ip_remembers(w) ==
    /\ pc[w] = "dispatch"
    /\ request[w].path = "/ip"
    /\ response' = [response EXCEPT ![w] = IpView(request[w], config)]
    /\ config' = [config EXCEPT !.TRUSTED_PROXIES =
                      @ \cup {get_real_client_ip(request[w], config).value}]
    /\ pc' = [pc EXCEPT ![w] = "after"]
    /\ UNCHANGED <<request, log, nreq>>

get_client_ip(w) ==
    /\ pc[w] = "dispatch"
    /\ request[w].path = "/ip"
    /\ response' = [response EXCEPT ![w] = IpView(request[w], config)]
    /\ pc' = [pc EXCEPT ![w] = "after"]
    /\ UNCHANGED <<config, request, log, nreq>>

home(w) ==
    /\ pc[w] = "dispatch"
    /\ request[w].path = "/"
    /\ response' = [response EXCEPT ![w] =
           [status |-> 200, body |-> jsonify("message", "Welcome to IP Address API Service!")]]
    /\ pc' = [pc EXCEPT ![w] = "after"]
    /\ UNCHANGED <<config, request, log, nreq>>

health_check(w) ==
    /\ pc[w] = "dispatch"
    /\ request[w].path = "/health"
    /\ response' = [response EXCEPT ![w] =
           [status |-> 200, body |-> jsonify("healthy", "1.2.0")]]
    /\ pc' = [pc EXCEPT ![w] = "after"]
    /\ UNCHANGED <<config, request, log, nreq>>

\* No route matches: the 404 handler answers.
NoRoute(w) ==
    /\ pc[w] = "dispatch"
    /\ request[w].path \notin {"/ip", "/", "/health"}
    /\ response' = [response EXCEPT ![w] = not_found]
    /\ pc' = [pc EXCEPT ![w] = "after"]
    /\ UNCHANGED <<config, request, log, nreq>>

\* The hook without its return statement: the server answers 500.
after_request_returns_nothing(w) ==
    /\ pc[w] = "after"
    /\ log' = Append(log, Access(get_real_client_ip(request[w], config).value,
                                 request[w], response[w]))
    /\ response' = [response EXCEPT ![w] = internal_error]
    /\ pc' = [pc EXCEPT ![w] = "done"]
    /\ UNCHANGED <<config, request, nreq>>

\* after_request: resolve the client again, write the access line, return
\* the response it was given.  An exception that escapes the hook is answered
\* by the 500 handler.
after_request(w) ==
    /\ pc[w] = "after"
    /\ LET r == get_real_client_ip(request[w], config)
       IN  IF r.exc # ""
           THEN /\ response' = [response EXCEPT ![w] = internal_error]
                /\ log' = log
           ELSE /\ log' = Append(log, Access(r.value, request[w], response[w]))
                /\ response' = response
    /\ pc' = [pc EXCEPT ![w] = "done"]
    /\ UNCHANGED <<config, request, nreq>>

\* The response is sent and the request context is torn down.
Deliver(w) ==
    /\ pc[w] = "done"
    /\ pc' = [pc EXCEPT ![w] = "idle"]
    /\ request' = [request EXCEPT ![w] = NoRequest]
    /\ UNCHANGED <<config, response, log, nreq>>

----------------------------------------------------------------------------
(* Spec: one GET /ip request with arbitrary headers and peer address *)

Init ==
    /\ config = ProductionConfig
    /\ \E r \in ResolverRequests :
           request = [w \in Workers |-> IF w = "w1" THEN r ELSE NoRequest]
    /\ pc = [w \in Workers |-> IF w = "w1" THEN "before" ELSE "idle"]
    /\ response = [w \in Workers |-> NoResponse]
    /\ log = <<>>
    /\ nreq = 1

Next ==
    \/ before_request("w1")
    \/ get_client_ip("w1")
    \/ after_request("w1")
    \/ Deliver("w1")

Spec == Init /\ [][Next]_vars

(* SpecServer: the workers take requests for any route and interleave *)

InitServer ==
    /\ config = ProductionConfig
    /\ request = [w \in Workers |-> NoRequest]
    /\ pc = [w \in Workers |-> "idle"]
    /\ response = [w \in Workers |-> NoResponse]
    /\ log = <<>>
    /\ nreq = 0

NextServer ==
    \E w \in Workers :
        \/ Receive(w)
        \/ before_request(w)
        \/ get_client_ip(w)
        \/ home(w)
        \/ health_check(w)
        \/ NoRoute(w)
        \/ after_request(w)
        \/ Deliver(w)

SpecServer == InitServer /\ [][NextServer]_vars

----------------------------------------------------------------------------
(* Vocabulary of the properties *)

\* The view function of GET /ip has answered worker w's request.
Resolved(w) == pc[w] \in {"after", "done"} /\ request[w].path = "/ip"

\* The string GET /ip reported as the client.
ReportedIp(w) == response[w].body.ip

\* The forwarding chain: the header split on commas, each element trimmed.
Chain(req) == LET parts == split(req.xff.v) IN [i \in 1..Len(parts) |-> strip(parts[i])]

\* s parses as an address.
WellFormed(s) == ip_address(strip(s)).exc = ""

Trusted == config.TRUSTED_PROXIES

\* Entry i of chain ch is well formed and is not one of the trusted strings.
Candidate(ch, i) == WellFormed(ch[i]) /\ ch[i] \notin Trusted

HasCandidate(req) ==
    req.xff.has /\ LET ch == Chain(req) IN \E i \in DOMAIN ch : Candidate(ch, i)

\* Entry i of chain ch is a candidate and nothing to its right is.
Rightmost(ch, i) ==
    /\ Candidate(ch, i)
    /\ \A j \in DOMAIN ch : j > i => ~Candidate(ch, j)

RealIpUsable(req) == req.xri.has /\ WellFormed(req.xri.v)

PeerUsable(req) == req.remote_addr.has /\ req.remote_addr.v # <<>>

\* What steps 2 to 4 give when step 1 selects nothing.
Fallback(req) ==
    IF RealIpUsable(req) THEN req.xri.v
    ELSE IF PeerUsable(req) THEN req.remote_addr.v
    ELSE UNKNOWN

----------------------------------------------------------------------------
(* C1 *)

\* C1 (as claimed): the resolved client IP is never a member of the trusted
\* proxy set, whatever the request.
C1_NeverTrusted ==
    \A w \in Workers : Resolved(w) => ReportedIp(w) \notin Trusted

\* C1 (amended): the resolved client IP is a well-formed, non-trusted chain
\* entry, the well-formed X-Real-IP value, the non-empty peer address, or
\* "unknown"; it is a member of the trusted proxy set only when it is the
\* X-Real-IP value or the peer address, which are returned unchecked.
C1_TrustedOnlyFromFallback ==
    \A w \in Workers : Resolved(w) =>
        LET req == request[w]
            ip  == ReportedIp(w)
            ch  == Chain(req)
        IN  /\ \/ /\ req.xff.has
                  /\ \E i \in DOMAIN ch : Candidate(ch, i) /\ ip = ch[i]
               \/ RealIpUsable(req) /\ ip = req.xri.v
               \/ PeerUsable(req) /\ ip = req.remote_addr.v
               \/ ip = UNKNOWN
            /\ ip \in Trusted =>
                   \/ RealIpUsable(req) /\ ip = req.xri.v
                   \/ PeerUsable(req) /\ ip = req.remote_addr.v

\* A chain that names a trusted proxy, answered with another entry of it,
\* while X-Real-IP names a trusted proxy.
C1_Witness ==
    /\ Resolved("w1")
    /\ request["w1"].xff.has
    /\ LET ch == Chain(request["w1"])
       IN  \E i, j \in DOMAIN ch : ch[i] \in Trusted /\ ch[j] = ReportedIp("w1")
    /\ ReportedIp("w1") \notin Trusted
    /\ request["w1"].xri.has /\ request["w1"].xri.v \in Trusted

----------------------------------------------------------------------------
(* C2 *)

----------------------------------------------------------------------------
(* C3 *)

----------------------------------------------------------------------------
(* C4 *)

\* C4: the steps are strictly prioritised.  A chain candidate wins over
\* X-Real-IP and the peer address; X-Real-IP is used exactly when step 1
\* selected nothing and the header is well formed; the peer address is used
\* exactly when neither earlier step succeeded and it is present and non-empty.
C4_FirstSuccessfulStepWins ==
    \A w \in Workers : Resolved(w) =>
        LET req == request[w]
            ip  == ReportedIp(w)
            ch  == Chain(req)
            hit == HasCandidate(req)
        IN  /\ hit => \E i \in DOMAIN ch : Rightmost(ch, i) /\ ip = ch[i]
            /\ ~hit /\ RealIpUsable(req) => ip = req.xri.v
            /\ ~hit /\ ~RealIpUsable(req) /\ PeerUsable(req) => ip = req.remote_addr.v

\* No X-Forwarded-For, a malformed X-Real-IP, and the peer address returned.
C4_Witness ==
    /\ Resolved("w1")
    /\ LET req == request["w1"]
       IN  /\ ~req.xff.has
           /\ req.xri.has /\ ~WellFormed(req.xri.v)
           /\ PeerUsable(req) /\ WellFormed(req.remote_addr.v)
           /\ ReportedIp("w1") = req.remote_addr.v

----------------------------------------------------------------------------
(* C5 *)

\* C5 (as claimed): the result is "unknown" only when X-Forwarded-For is
\* absent, X-Real-IP is absent, and the peer address is absent or empty.
C5_UnknownOnlyWithoutSignals ==
    \A w \in Workers : Resolved(w) /\ ReportedIp(w) = UNKNOWN =>
        /\ ~request[w].xff.has
        /\ ~request[w].xri.has
        /\ ~PeerUsable(request[w])

\* C5 (amended): the result is "unknown" only when no signal is usable:
\* X-Forwarded-For is absent or has no well-formed non-trusted entry,
\* X-Real-IP is absent or malformed, and the peer address is absent, empty
\* or itself the text "unknown".
C5_UnknownOnlyWithoutUsableSignals ==
    \A w \in Workers : Resolved(w) /\ ReportedIp(w) = UNKNOWN =>
        /\ ~HasCandidate(request[w])
        /\ ~RealIpUsable(request[w])
        /\ ~PeerUsable(request[w]) \/ request[w].remote_addr.v = UNKNOWN

\* "unknown" returned although both headers are present, and no peer address.
C5_Witness ==
    /\ Resolved("w1")
    /\ ReportedIp("w1") = UNKNOWN
    /\ request["w1"].xff.has /\ request["w1"].xff.v # <<>>
    /\ request["w1"].xri.has
    /\ ~request["w1"].remote_addr.has

----------------------------------------------------------------------------
(* C6 *)

\* C6: the two resolver calls of one request (the view function of GET /ip,
\* then after_request) give the same answer, also while other requests are
\* being handled, and no resolver call changes the configuration or any
\* request: the access line carries the IP the response reported.
C6_SameAnswerTwice ==
    [][\A w \in Workers :
           /\ pc[w] \in {"dispatch", "after"} /\ pc'[w] # pc[w] =>
                  config' = config /\ request' = request
           /\ pc[w] = "after" /\ pc'[w] = "done" /\ request[w].path = "/ip" =>
                  log' = Append(log, Access(ReportedIp(w), request[w], response[w]))]_vars

\* Two workers have answered GET /ip for identical requests, interleaved,
\* with identical responses and access lines.
C6_Witness ==
    /\ pc["w1"] = "done" /\ pc["w2"] = "done"
    /\ request["w1"].path = "/ip" /\ request["w1"].xff = Some(<<"8.8.8.8">>)
    /\ request["w2"] = request["w1"]
    /\ response["w2"] = response["w1"]
    /\ Len(log) = 4
    /\ log[1].kind = "incoming" /\ log[2].kind = "incoming"
    /\ log[3] = log[4]
    /\ log[4].client_ip = ReportedIp("w1")

----------------------------------------------------------------------------
(* C7 *)

\* C7: the resolver never raises and always returns a string: whatever the
\* headers and the peer address, GET /ip answers 200 with a string, the
\* access line is written, no element of the request makes validate_ip
\* raise, and an unusable signal only passes the turn to the next step.
C7_NeverRaises ==
    \A w \in Workers : Resolved(w) =>
        LET req == request[w]
            ch  == Chain(req)
        IN  /\ get_real_client_ip(req, config).exc = ""
            /\ response[w].status = 200
            /\ response[w].body.kind = "ip"
            /\ ReportedIp(w) \in Seq(Atoms \cup {"not-an-ip"})
            /\ req.xff.has => \A i \in DOMAIN ch : validate_ip(ch[i]).exc = ""
            /\ req.xri.has => validate_ip(req.xri.v).exc = ""
            /\ ~HasCandidate(req) => ReportedIp(w) = Fallback(req)
            /\ pc[w] = "done" =>
                   log[Len(log)] = Access(ReportedIp(w), req, response[w])

\* A header with an empty element between commas, a blank X-Real-IP and an
\* empty peer address: the request is answered and logged.
C7_Witness ==
    /\ pc["w1"] = "done"
    /\ LET req == request["w1"]
       IN  /\ req.xff.has /\ Chain(req) = <<<<>>, <<>>, <<>>>>
           /\ req.xri = Some(<<Space>>)
           /\ req.remote_addr = Some(<<>>)
    /\ response["w1"].status = 200
    /\ ReportedIp("w1") = UNKNOWN

----------------------------------------------------------------------------
(* C8 *)

\* C8: in the GET /ip response, ip is the resolver's output, and the network
\* fields come from parsing that string again: version is "v4" or "v6"
\* exactly when it parses as that version and "invalid" otherwise, and
\* is_global is false whenever it does not parse (so for "unknown" and for a
\* peer address that is no IP).
C8_NetworkFromRevalidation ==
    \A w \in Workers : Resolved(w) =>
        LET b == response[w].body
            a == ip_address(strip(b.ip))
        IN  /\ b.ip = get_real_client_ip(request[w], config).value
            /\ b.version = "v4" <=> (a.exc = "" /\ a.version = 4)
            /\ b.version = "v6" <=> (a.exc = "" /\ a.version = 6)
            /\ b.version = "invalid" <=> a.exc # ""
            /\ b.is_global = (a.exc = "" /\ a.is_global)
            /\ b.ip = UNKNOWN => b.version = "invalid" /\ ~b.is_global

\* The fallback returned a peer address that is no IP, reported as invalid.
C8_Witness ==
    /\ Resolved("w1")
    /\ ReportedIp("w1") = <<"not-an-ip">>
    /\ request["w1"].remote_addr = Some(<<"not-an-ip">>)
    /\ response["w1"].body.version = "invalid"
    /\ response["w1"].body.is_global = FALSE

----------------------------------------------------------------------------
(* C9 *)

\* C9: the logging hooks leave the response unchanged on every route: a
\* before_request or after_request step changes no response and appends
\* exactly one line to the log, and the response delivered is the one the
\* hooks were given.
C9_HooksLeaveResponse ==
    [][\A w \in Workers :
           /\ pc[w] \in {"before", "after"} /\ pc'[w] # pc[w] =>
                  /\ response' = response
                  /\ Len(log') = Len(log) + 1
                  /\ SubSeq(log', 1, Len(log)) = log
           /\ pc[w] = "done" /\ pc'[w] # pc[w] => response' = response]_vars

\* An unmatched route and GET /health, both answered and logged.
C9_Witness ==
    /\ pc["w1"] = "done" /\ pc["w2"] = "done"
    /\ request["w1"].path = "/missing" /\ response["w1"] = not_found
    /\ request["w2"].path = "/health" /\ response["w2"].status = 200
    /\ \E i, j \in DOMAIN log :
           /\ log[i].kind = "access" /\ log[i].status = 404
           /\ log[j].kind = "access" /\ log[j].status = 200

----------------------------------------------------------------------------
(* C10 *)

\* s is well formed and denotes the address of some trusted proxy.
DenotesTrustedAddress(s) ==
    /\ WellFormed(s)
    /\ \E t \in Trusted : ip_address(strip(s)).addr = ip_address(t).addr

\* C10: trust is decided by string equality: a chain entry that denotes the
\* address of a trusted proxy in another textual form is not skipped, and is
\* returned, as written, when nothing to its right is usable.
C10_ExactStringTrust ==
    \A w \in Workers : Resolved(w) /\ request[w].xff.has =>
        LET ch == Chain(request[w])
        IN  \A i \in DOMAIN ch :
                Rightmost(ch, i) /\ DenotesTrustedAddress(ch[i]) => ReportedIp(w) = ch[i]

\* "0:0:0:0:0:0:0:1" returned although "::1" is trusted and a usable
\* entry stands to its left.
C10_Witness ==
    /\ Resolved("w1")
    /\ <<"::1">> \in Trusted
    /\ LET req == request["w1"]
           ch  == Chain(req)
       IN  /\ req.xff.has
           /\ \E i, j \in DOMAIN ch :
                  i < j /\ ch[i] = <<"8.8.8.8">> /\ ch[j] = <<"0:0:0:0:0:0:0:1">>
    /\ ReportedIp("w1") = <<"0:0:0:0:0:0:0:1">>

====
